---------------------------- MODULE Spec2Model ----------------------------
(***************************************************************************)
(* A model of VariationalAutoencoders.ipynb: the VariationalAutoEncoder     *)
(* module (encode, decode, forward), the train loop and the inference       *)
(* procedure.                                                               *)
(*                                                                          *)
(* Tensors are functions over index ranges (a batch is a sequence of rows,  *)
(* a row a sequence of elements).  A float is a fixed-point number: the     *)
(* integer n stands for n / ONE.  Products and quotients are rounded to     *)
(* the nearest representable number, as float arithmetic rounds.  The       *)
(* three IEEE special values are kept: PInf, NInf and NaN, with the IEEE    *)
(* rules for them (0 * inf = nan, inf - inf = nan, log 0 = -inf, ...).      *)
(* Magnitude overflow is not modelled: the explored values stay far from    *)
(* the float range.                                                         *)
(*                                                                          *)
(* The torch calls of the notebook are modelled by what torch does:         *)
(* optim.Adam moves a parameter against the sign of its gradient and makes  *)
(* it NaN on a non-finite gradient; nn.BCELoss clamps its logarithms at     *)
(* -100 and, on the cpu and cuda devices, raises a RuntimeError on an input *)
(* outside [0, 1].  DEVICE may also be mps, so a non-finite reconstruction  *)
(* either raises (TrainLossRangeError) or goes on as a NaN (TrainLoss).     *)
(***************************************************************************)
EXTENDS Integers, Sequences, FiniteSets

(***************************************************************************)
(* Bounds of the model.                                                     *)
(***************************************************************************)
INPUT_DIM == 2      \* pixels per image           (784 in the notebook)
H_DIM == 1          \* hidden units               (300 in the notebook)
Z_DIM == 2          \* latent dimensions          (20 in the notebook)
MaxSteps == 4       \* train: num_epochs * len(train_loader) <= MaxSteps
MaxLabels == 2      \* inference: len(labels) <= MaxLabels
MaxStream == 3      \* inference: len(dataset) <= MaxStream
MaxExamples == 2    \* inference: n_examples <= MaxExamples

(***************************************************************************)
(* Floats.                                                                  *)
(***************************************************************************)
ONE == 4                    \* the fixed-point representation of 1.0
PInf == 1000000             \* +inf
NInf == -1000000            \* -inf
NaN == 2000000              \* nan

IsNaN(a) == a = NaN
IsInf(a) == a = PInf \/ a = NInf
IsFinite(a) == ~IsNaN(a) /\ ~IsInf(a)

Abs(n) == IF n < 0 THEN -n ELSE n
Sgn(n) == IF n < 0 THEN -1 ELSE IF n > 0 THEN 1 ELSE 0

\* n / d rounded to the nearest integer, halves away from zero (d > 0)
RoundDiv(n, d) == Sgn(n) * ((2 * Abs(n) + d) \div (2 * d))

FNeg(a) == IF IsNaN(a) THEN NaN ELSE -a

FAdd(a, b) ==
    IF IsNaN(a) \/ IsNaN(b) THEN NaN
    ELSE IF IsInf(a) THEN (IF IsInf(b) /\ a # b THEN NaN ELSE a)
    ELSE IF IsInf(b) THEN b
    ELSE a + b

FSub(a, b) == FAdd(a, FNeg(b))

FMul(a, b) ==
    IF IsNaN(a) \/ IsNaN(b) THEN NaN
    ELSE IF IsInf(a) \/ IsInf(b)
         THEN (IF a = 0 \/ b = 0 THEN NaN
               ELSE IF Sgn(a) * Sgn(b) > 0 THEN PInf ELSE NInf)
    ELSE RoundDiv(a * b, ONE)

FDiv(a, b) ==
    IF IsNaN(a) \/ IsNaN(b) THEN NaN
    ELSE IF IsInf(a) THEN (IF IsInf(b) THEN NaN
                           ELSE IF Sgn(a) * Sgn(b) >= 0 THEN a ELSE -a)
    ELSE IF IsInf(b) THEN 0
    ELSE IF b = 0 THEN (IF a = 0 THEN NaN ELSE IF a > 0 THEN PInf ELSE NInf)
    ELSE Sgn(b) * RoundDiv(a * ONE, Abs(b))

\* the natural logarithm of n / ONE, in units of 1 / ONE, rounded to nearest.
\* LnSteps[k] is the least n whose logarithm rounds to k; LnBelow[n] is the
\* logarithm of n / ONE for 0 < n < ONE.
LnSteps == <<5, 6, 8, 10, 13, 16, 21, 27, 34, 44, 56, 71, 92, 117, 151, 193>>
LnBelow == <<-6, -3, -1>>
LnUnits(n) ==
    IF n < ONE THEN LnBelow[n]
    ELSE Cardinality({k \in DOMAIN LnSteps : LnSteps[k] <= n})

\* torch.log
FLog(a) ==
    IF IsNaN(a) THEN NaN
    ELSE IF a = PInf THEN PInf
    ELSE IF a < 0 THEN NaN
    ELSE IF a = 0 THEN NInf
    ELSE LnUnits(a)

\* Tensor.pow(2)
FPow2(a) == FMul(a, a)

\* F.relu / nn.ReLU
Relu(a) == IF IsNaN(a) THEN NaN ELSE IF a > 0 THEN a ELSE 0

\* torch.sigmoid, rounded to the nearest multiple of 1 / ONE
Sigmoid(a) ==
    IF IsNaN(a) THEN NaN
    ELSE IF a >= 8 THEN ONE
    ELSE IF a >= 3 THEN 3
    ELSE IF a >= -2 THEN 2
    ELSE IF a >= -7 THEN 1
    ELSE 0

(***************************************************************************)
(* Tensors: a vector is a sequence of floats, a batch a sequence of rows.   *)
(***************************************************************************)
\* a tensor computed once and stored: a sequence with its elements evaluated
Stored(v) == v \o <<>>

RECURSIVE FSumTo(_, _)
FSumTo(v, n) == IF n = 0 THEN 0 ELSE FAdd(FSumTo(v, n - 1), v[n])

\* torch.sum over a vector
FSum(v) == FSumTo(v, Len(v))

\* torch.sum over every element of a batch
FSumAll(X) == FSum(Stored([r \in DOMAIN X |-> FSum(X[r])]))

Fill(n, a) == Stored([i \in 1..n |-> a])

\* elementwise map of two batches of the same shape
Map2(Op(_, _), X, Y) ==
    Stored([r \in DOMAIN X |->
               Stored([j \in DOMAIN X[r] |-> Op(X[r][j], Y[r][j])])])

Map1(Op(_), X) ==
    Stored([r \in DOMAIN X |-> Stored([j \in DOMAIN X[r] |-> Op(X[r][j])])])

\* nn.Linear: a layer is [w |-> in x out matrix, b |-> out vector];
\* Linear(layer, X)[r][j] = sum_i X[r][i] * w[i][j] + b[j]
Linear(layer, X) ==
    Stored([r \in DOMAIN X |->
        Stored([j \in DOMAIN layer.b |->
            FAdd(FSum(Stored([i \in DOMAIN layer.w |->
                                 FMul(X[r][i], layer.w[i][j])])),
                 layer.b[j])])])

\* nn.Linear(n_in, n_out) with every weight w0 and every bias b0
ConstLayer(n_in, n_out, w0, b0) ==
    [w |-> Stored([i \in 1..n_in |-> Fill(n_out, w0)]), b |-> Fill(n_out, b0)]

\* VariationalAutoEncoder.__init__: the five affine layers
VariationalAutoEncoder(p) ==
    [img_2hid   |-> ConstLayer(INPUT_DIM, H_DIM, p[1], p[2]),
     hid_2mu    |-> ConstLayer(H_DIM, Z_DIM, p[3], p[4]),
     hid_2sigma |-> ConstLayer(H_DIM, Z_DIM, p[5], p[6]),
     z_2hid     |-> ConstLayer(Z_DIM, H_DIM, p[7], p[8]),
     hid_2img   |-> ConstLayer(H_DIM, INPUT_DIM, p[9], p[10])]

LayerNames == {"img_2hid", "hid_2mu", "hid_2sigma", "z_2hid", "hid_2img"}

\* VariationalAutoEncoder.encode
encode(m, x) ==
    LET h == Map1(Relu, Linear(m.img_2hid, x))
    IN  [mu |-> Linear(m.hid_2mu, h), sigma |-> Linear(m.hid_2sigma, h)]

\* VariationalAutoEncoder.decode
decode(m, z) ==
    LET h == Map1(Relu, Linear(m.z_2hid, z))
    IN  Map1(Sigmoid, Linear(m.hid_2img, h))

\* a mutant of Reparametrize: the noise is added without the spread
ReparametrizeNoSigma(mu_, sigma_, eps) == Map2(FAdd, mu_, eps)

\* the reparametrization trick: mu + sigma * epsilon
Reparametrize(mu_, sigma_, eps) == Map2(FAdd, mu_, Map2(FMul, sigma_, eps))

\* VariationalAutoEncoder.forward, with the draw of torch.randn_like given
forward(m, x, eps) ==
    LET e == encode(m, x)
        z_reparametrized == Reparametrize(e.mu, e.sigma, eps)
    IN  [x_reconstructed |-> decode(m, z_reparametrized),
         mu |-> e.mu, sigma |-> e.sigma, z |-> z_reparametrized]

\* the logarithm as nn.BCELoss takes it: clamped below at -100
ClampLog(a) ==
    LET l == FLog(a)
    IN  IF IsNaN(l) THEN NaN ELSE IF l < -100 * ONE THEN -100 * ONE ELSE l

\* the check nn.BCELoss makes of its input on the cpu and cuda devices: every
\* element is between 0 and 1 (a NaN is not)
InUnitRange(input) ==
    \A r \in DOMAIN input : \A j \in DOMAIN input[r] :
        /\ ~IsNaN(input[r][j])
        /\ 0 <= input[r][j]
        /\ input[r][j] <= ONE

\* nn.BCELoss(reduction='sum')(input, target)
BCELoss(input, target) ==
    LET Term(i, t) == FNeg(FAdd(FMul(t, ClampLog(i)),
                                FMul(FSub(ONE, t), ClampLog(FSub(ONE, i)))))
    IN  FSumAll(Map2(Term, input, target))

\* -torch.sum(1 + torch.log(sigma.pow(2)) - mu.pow(2) - sigma.pow(2))
KlDiv(mu_, sigma_) ==
    LET Term(mv, sv) ==
            FSub(FSub(FAdd(ONE, FLog(FPow2(sv))), FPow2(mv)), FPow2(sv))
    IN  FNeg(FSumAll(Map2(Term, mu_, sigma_)))

\* loss = alpha*reconstruction_loss + (1-alpha)*kl_div
Loss(alpha_, rec, kl) ==
    FAdd(FMul(alpha_, rec), FMul(FSub(ONE, alpha_), kl))

(***************************************************************************)
(* loss.backward(): reverse-mode differentiation of the loss of train,      *)
(* operation by operation, in the same float arithmetic.                    *)
(***************************************************************************)
\* gradient of a Linear layer's parameters, from its input X and the gradient
\* G of its output
LinearGrad(layer, X, G) ==
    [w |-> Stored([i \in DOMAIN layer.w |->
               Stored([j \in DOMAIN layer.b |->
                   FSum(Stored([r \in DOMAIN X |-> FMul(X[r][i], G[r][j])]))])]),
     b |-> Stored([j \in DOMAIN layer.b |->
               FSum(Stored([r \in DOMAIN G |-> G[r][j]]))])]

\* gradient of a Linear layer's input, from the gradient G of its output
LinearBack(layer, G) ==
    Stored([r \in DOMAIN G |->
        Stored([i \in DOMAIN layer.w |->
            FSum(Stored([j \in DOMAIN layer.b |->
                            FMul(G[r][j], layer.w[i][j])]))])])

\* relu backward: the gradient passes where the input was above 0
ReluBack(pre, g) == IF pre <= 0 THEN 0 ELSE g

\* BCELoss backward: (input - target) / max((1 - input) * input, EPSILON),
\* EPSILON the smallest positive float
BCEBack(i, t) ==
    LET d == FMul(FSub(ONE, i), i)
    IN  FDiv(FSub(i, t), IF IsNaN(d) THEN NaN ELSE IF d < 1 THEN 1 ELSE d)

\* sigmoid backward: grad * (1 - out) * out
SigmoidBack(out_, g) == FMul(g, FMul(FSub(ONE, out_), out_))

Backward(m, x, eps, alpha_) ==
    LET a1 == Linear(m.img_2hid, x)
        h == Map1(Relu, a1)
        f == forward(m, x, eps)
        a2 == Linear(m.z_2hid, f.z)
        h2 == Map1(Relu, a2)
        \* loss = alpha*reconstruction_loss + (1-alpha)*kl_div
        g_rec == alpha_
        g_kl == FSub(ONE, alpha_)
        \* reconstruction_loss -> x_reconstructed -> hid_2img -> z_2hid -> z
        g_xr == Map1(LAMBDA v : FMul(g_rec, v), Map2(BCEBack, f.x_reconstructed, x))
        g_a3 == Map2(SigmoidBack, f.x_reconstructed, g_xr)
        g_h2 == LinearBack(m.hid_2img, g_a3)
        g_a2 == Map2(ReluBack, a2, g_h2)
        g_z == LinearBack(m.z_2hid, g_a2)
        \* kl_div = -sum(1 + log(sigma^2) - mu^2 - sigma^2)
        g_t == FNeg(g_kl)
        KlMu(mv, sv) == FMul(FNeg(g_t), FMul(2 * ONE, mv))
        KlSigma(mv, sv) ==
            FAdd(FMul(FDiv(g_t, FPow2(sv)), FMul(2 * ONE, sv)),
                 FMul(FNeg(g_t), FMul(2 * ONE, sv)))
        \* z = mu + sigma*epsilon
        g_mu == Map2(FAdd, g_z, Map2(KlMu, f.mu, f.sigma))
        g_sigma == Map2(FAdd, Map2(FMul, g_z, eps), Map2(KlSigma, f.mu, f.sigma))
        g_h == Map2(FAdd, LinearBack(m.hid_2mu, g_mu),
                          LinearBack(m.hid_2sigma, g_sigma))
        g_a1 == Map2(ReluBack, a1, g_h)
    IN  [img_2hid   |-> LinearGrad(m.img_2hid, x, g_a1),
         hid_2mu    |-> LinearGrad(m.hid_2mu, h, g_mu),
         hid_2sigma |-> LinearGrad(m.hid_2sigma, h, g_sigma),
         z_2hid     |-> LinearGrad(m.z_2hid, f.z, g_a2),
         hid_2img   |-> LinearGrad(m.hid_2img, h2, g_a3)]

\* elementwise combination of two parameter-shaped records
MapParams(Op(_, _), P, Q) ==
    [l \in LayerNames |->
        [w |-> Stored([i \in DOMAIN P[l].w |->
                   Stored([j \in DOMAIN P[l].b |->
                              Op(P[l].w[i][j], Q[l].w[i][j])])]),
         b |-> Stored([j \in DOMAIN P[l].b |-> Op(P[l].b[j], Q[l].b[j])])]]

\* every parameter, as a set of floats
ParamValues(P) ==
    UNION {{P[l].w[i][j] : i \in DOMAIN P[l].w, j \in DOMAIN P[l].b}
           \cup {P[l].b[j] : j \in DOMAIN P[l].b} : l \in LayerNames}

\* optimizer.zero_grad(): no gradient is held
ZeroGrad(P) == MapParams(LAMBDA a, b : 0, P, P)

\* gradients accumulate into .grad
Accumulate(G, D) == MapParams(FAdd, G, D)

\* optim.Adam, one parameter: a step of one unit against the sign of the
\* gradient (Adam normalises the gradient by its running magnitude); a
\* non-finite gradient makes the running averages, and the parameter, nan
AdamStep(p_, g) ==
    IF IsNaN(p_) \/ ~IsFinite(g) THEN NaN ELSE p_ - Sgn(g)

\* a mutant of OptimizerStep: parameters with a non-finite gradient are skipped
OptimizerStepSkipNonFinite(P, G) ==
    MapParams(LAMBDA a, g : IF IsFinite(g) THEN AdamStep(a, g) ELSE a, P, G)

\* optimizer.step()
OptimizerStep(P, G) == MapParams(AdamStep, P, G)

(***************************************************************************)
(* Inputs.                                                                  *)
(***************************************************************************)
\* images: all pixels 0, all pixels 1
Images == {Fill(INPUT_DIM, 0), Fill(INPUT_DIM, ONE)}

\* batches the train_loader yields: one or two flattened images
Batches == {<<img>> : img \in Images}
           \cup {<<Fill(INPUT_DIM, ONE), Fill(INPUT_DIM, 0)>>}

\* draws of torch.randn_like(sigma): all 0, all +1, all -1, alternating signs
EpsDraws(sigma_) ==
    {[r \in DOMAIN sigma_ |-> [j \in DOMAIN sigma_[r] |-> a]] : a \in {0, ONE, -ONE}}
    \cup {[r \in DOMAIN sigma_ |->
              [j \in DOMAIN sigma_[r] |-> IF (r + j) % 2 = 0 THEN ONE ELSE -ONE]]}

\* the models handed to train and inference: [weight, bias] fills of the five
\* layers.  The second has a spread head that outputs 0, the third one that
\* outputs a negative spread on a black image.
InitModels ==
    {VariationalAutoEncoder(<<ONE, 0, ONE, 0, 0, ONE, ONE, 0, ONE, 0>>),
     VariationalAutoEncoder(<<ONE, 0, ONE, 0, 0, 0, ONE, 0, ONE, 0>>),
     VariationalAutoEncoder(<<ONE, 0, ONE, ONE, ONE, -ONE, ONE, 0, -ONE, ONE>>)}

\* ALPHA: 0, .5 (the notebook's), 1
Alphas == {0, ONE \div 2, ONE}

\* class labels of the corpus
Classes == {0, 1, 2}

\* sequences over S of length at most n
SeqsUpTo(S, n) == UNION {[1..k -> S] : k \in 0..n}

\* label lists: no label twice (the notebook passes list(set(labels)))
LabelLists ==
    {l \in SeqsUpTo(Classes, MaxLabels) :
        \A a, b \in DOMAIN l : a # b => l[a] # l[b]}

\* the image of the corpus with label y
ImageOf(y) == IF y % 2 = 0 THEN Fill(INPUT_DIM, 0) ELSE Fill(INPUT_DIM, ONE)

\* (image, label) streams
Datasets ==
    {[k \in DOMAIN ys |-> [x |-> ImageOf(ys[k]), y |-> ys[k]]] :
        ys \in SeqsUpTo(Classes, MaxStream)}

(***************************************************************************)
(* State.                                                                   *)
(***************************************************************************)
VARIABLES
    pc,                 \* where the notebook is
    model,              \* the parameters of the VariationalAutoEncoder
    grad,               \* the .grad of every parameter
    \* train
    num_epochs, train_loader, alpha, epoch, i,
    x, x_reconstructed, mu, sigma, epsilon, z,
    reconstruction_loss, kl_div, loss,
    events,             \* what train has executed, in order
    returned,           \* what train returned
    \* inference
    labels, dataset, n_examples, label_i, images, idx, encodings_digit,
    example, out,
    src,                \* the stream position of each collected image
    saved,              \* the calls of save_image, in order
    error,              \* the exception that ended the call
    \* forward
    prev                \* the previous call of forward: inputs and results

trainVars == <<num_epochs, train_loader, alpha, epoch, i, reconstruction_loss,
               kl_div, loss, events, returned>>
fwdVars == <<x, x_reconstructed, mu, sigma, epsilon, z>>
infVars == <<labels, dataset, n_examples, label_i, images, idx,
             encodings_digit, example, out, src, saved, error>>
vars == <<pc, model, grad, trainVars, fwdVars, infVars, prev>>

Init ==
    /\ pc = "idle"
    /\ model \in InitModels
    /\ grad = ZeroGrad(model)
    /\ num_epochs = 0 /\ train_loader = <<>> /\ alpha = 0
    /\ epoch = 0 /\ i = 0
    /\ x = <<>> /\ x_reconstructed = <<>> /\ mu = <<>> /\ sigma = <<>>
    /\ epsilon = <<>> /\ z = <<>>
    /\ reconstruction_loss = 0 /\ kl_div = 0 /\ loss = 0
    /\ events = <<>> /\ returned = "nothing"
    /\ labels = <<>> /\ dataset = <<>> /\ n_examples = 0 /\ label_i = 0
    /\ images = <<>> /\ idx = 0 /\ encodings_digit = <<>>
    /\ example = 0 /\ out = <<>> /\ src = <<>> /\ saved = <<>>
    /\ error = "none"
    /\ prev = <<>>

(***************************************************************************)
(* train(model, num_epochs, train_loader, optimizer, loss_fn, alpha)        *)
(***************************************************************************)
\* a mutant of TrainNextPc: the gradients are cleared after the backward pass
TrainNextPcClearLate(p) ==
    CASE p = "t_forward"  -> "t_loss"
      [] p = "t_loss"     -> "t_backward"
      [] p = "t_backward" -> "t_zero_grad"
      [] p = "t_zero_grad" -> "t_step"
      [] p = "t_step"     -> "t_batch"

\* the statements of the loop body, in program order
TrainNextPc(p) ==
    CASE p = "t_forward"  -> "t_loss"
      [] p = "t_loss"     -> "t_zero_grad"
      [] p = "t_zero_grad" -> "t_backward"
      [] p = "t_backward" -> "t_step"
      [] p = "t_step"     -> "t_batch"

Event(op) == [op |-> op, epoch |-> epoch, i |-> i]

\* the call: the arguments are chosen
TrainCall ==
    /\ pc = "idle"
    /\ \E e \in 0..MaxSteps, n \in 0..MaxSteps, b \in Batches, a \in Alphas :
          /\ e * n <= MaxSteps
          /\ num_epochs' = e
          /\ train_loader' = [k \in 1..n |-> b]
          /\ alpha' = a
    /\ epoch' = 0 /\ i' = 0
    /\ pc' = "t_batch"
    /\ UNCHANGED <<model, grad, reconstruction_loss, kl_div, loss, events,
                   returned, fwdVars, infVars, prev>>

\* for i, (x, _) in loop: the next batch, flattened
TrainNextBatch ==
    /\ pc = "t_batch"
    /\ epoch < num_epochs
    /\ i < Len(train_loader)
    /\ x' = train_loader[i + 1]
    /\ pc' = "t_forward"
    /\ UNCHANGED <<model, grad, trainVars, x_reconstructed, mu, sigma, epsilon,
                   z, infVars, prev>>

\* the train_loader is exhausted: for epoch in range(num_epochs) goes on
TrainNextEpoch ==
    /\ pc = "t_batch"
    /\ epoch < num_epochs
    /\ i = Len(train_loader)
    /\ epoch' = epoch + 1
    /\ i' = 0
    /\ UNCHANGED <<pc, model, grad, num_epochs, train_loader, alpha,
                   reconstruction_loss, kl_div, loss, events, returned,
                   fwdVars, infVars, prev>>

\* x_reconstructed, mu, sigma = model(x)
TrainForward ==
    /\ pc = "t_forward"
    /\ \E eps \in EpsDraws(encode(model, x).sigma) :
          LET f == forward(model, x, eps)
          IN  /\ epsilon' = eps
              /\ x_reconstructed' = f.x_reconstructed
              /\ mu' = f.mu
              /\ sigma' = f.sigma
              /\ z' = f.z
    /\ events' = Append(events, Event("ForwardPass"))
    /\ pc' = TrainNextPc(pc)
    /\ UNCHANGED <<model, grad, num_epochs, train_loader, alpha, epoch, i,
                   reconstruction_loss, kl_div, loss, returned, x, infVars, prev>>

\* reconstruction_loss, kl_div, loss
TrainLoss ==
    /\ pc = "t_loss"
    /\ reconstruction_loss' = BCELoss(x_reconstructed, x)
    /\ kl_div' = KlDiv(mu, sigma)
    /\ loss' = Loss(alpha, reconstruction_loss', kl_div')
    /\ events' = Append(events, Event("LossCompute"))
    /\ pc' = TrainNextPc(pc)
    /\ UNCHANGED <<model, grad, num_epochs, train_loader, alpha, epoch, i,
                   returned, fwdVars, infVars, prev>>

\* reconstruction_loss = loss_fn(x_reconstructed, x) raises: on the cpu and
\* cuda devices nn.BCELoss rejects an input outside [0, 1] with a RuntimeError
\* (on a device whose kernel does not check, TrainLoss goes on with a NaN)
TrainLossRangeError ==
    /\ pc = "t_loss"
    /\ ~InUnitRange(x_reconstructed)
    /\ error' = "RuntimeError"
    /\ pc' = "t_failed"
    /\ UNCHANGED <<model, grad, trainVars, fwdVars, labels, dataset,
                   n_examples, label_i, images, idx, encodings_digit, example,
                   out, src, saved, prev>>

\* a mutant of TrainZeroGrad: the parameters are zeroed, not their gradients
TrainZeroGradZeroesParameters ==
    /\ pc = "t_zero_grad"
    /\ model' = ZeroGrad(model)
    /\ events' = Append(events, Event("zero_grad"))
    /\ pc' = "t_backward"
    /\ UNCHANGED <<grad, num_epochs, train_loader, alpha, epoch, i,
                   reconstruction_loss, kl_div, loss, returned, fwdVars,
                   infVars, prev>>

\* optimizer.zero_grad()
TrainZeroGrad ==
    /\ pc = "t_zero_grad"
    /\ grad' = ZeroGrad(model)
    /\ events' = Append(events, Event("zero_grad"))
    /\ pc' = TrainNextPc(pc)
    /\ UNCHANGED <<model, num_epochs, train_loader, alpha, epoch, i,
                   reconstruction_loss, kl_div, loss, returned, fwdVars,
                   infVars, prev>>

\* loss.backward()
TrainBackward ==
    /\ pc = "t_backward"
    /\ grad' = Accumulate(grad, Backward(model, x, epsilon, alpha))
    /\ events' = Append(events, Event("BackwardPass"))
    /\ pc' = TrainNextPc(pc)
    /\ UNCHANGED <<model, num_epochs, train_loader, alpha, epoch, i,
                   reconstruction_loss, kl_div, loss, returned, fwdVars,
                   infVars, prev>>

\* optimizer.step(); the loop goes to its next batch
TrainStep ==
    /\ pc = "t_step"
    /\ model' = OptimizerStep(model, grad)
    /\ events' = Append(events, Event("ParameterUpdate"))
    /\ i' = i + 1
    /\ pc' = TrainNextPc(pc)
    /\ UNCHANGED <<grad, num_epochs, train_loader, alpha, epoch,
                   reconstruction_loss, kl_div, loss, returned, fwdVars,
                   infVars, prev>>

\* return model
TrainReturn ==
    /\ pc = "t_batch"
    /\ epoch = num_epochs
    /\ returned' = "model"
    /\ pc' = "t_returned"
    /\ UNCHANGED <<model, grad, num_epochs, train_loader, alpha, epoch, i,
                   reconstruction_loss, kl_div, loss, events, fwdVars,
                   infVars, prev>>

TrainNext ==
    \/ TrainCall \/ TrainNextBatch \/ TrainNextEpoch \/ TrainForward
    \/ TrainLoss \/ TrainLossRangeError \/ TrainZeroGrad \/ TrainBackward \/ TrainStep \/ TrainReturn

(***************************************************************************)
(* model(x) called on its own, twice                                        *)
(***************************************************************************)
ForwardCall ==
    /\ pc \in {"idle", "f_once"}
    /\ pc' = IF pc = "idle" THEN "f_once" ELSE "f_twice"
    /\ prev' = IF pc = "idle" THEN <<>>
               ELSE <<[x |-> x, epsilon |-> epsilon,
                       x_reconstructed |-> x_reconstructed,
                       mu |-> mu, sigma |-> sigma]>>
    /\ \E b \in Batches :
          \E eps \in EpsDraws(encode(model, b).sigma) :
             LET f == forward(model, b, eps)
             IN  /\ x' = b
                 /\ epsilon' = eps
                 /\ x_reconstructed' = f.x_reconstructed
                 /\ mu' = f.mu
                 /\ sigma' = f.sigma
                 /\ z' = f.z
    /\ UNCHANGED <<model, grad, trainVars, infVars>>

(***************************************************************************)
(* inference(model, labels, folder, dataset, n_examples)                    *)
(***************************************************************************)
\* a mutant of Collect: every image is collected, whatever its label
CollectAny(acc, y, k, img) ==
    [images |-> Append(acc.images, img), src |-> Append(acc.src, k),
     idx |-> acc.idx + 1]

\* if y == idx: images.append(x); idx += 1
Collect(acc, y, k, img) ==
    IF y = acc.idx
    THEN [images |-> Append(acc.images, img), src |-> Append(acc.src, k),
          idx |-> acc.idx + 1]
    ELSE acc

\* for x, y in dataset, from stream position k on; if idx == len_labels: break
RECURSIVE ScanFrom(_, _, _, _)
ScanFrom(ds, k, len_labels, acc) ==
    IF k > Len(ds) THEN acc
    ELSE LET a == Collect(acc, ds[k].y, k, ds[k].x)
         IN  IF a.idx = len_labels THEN a
             ELSE ScanFrom(ds, k + 1, len_labels, a)

\* a mutant of Scan: the first element of the dataset is skipped
ScanSkipFirst(ds, len_labels) ==
    ScanFrom(ds, 2, len_labels, [images |-> <<>>, src |-> <<>>, idx |-> 0])

\* images = []; idx = 0; the scan of the dataset
Scan(ds, len_labels) ==
    ScanFrom(ds, 1, len_labels, [images |-> <<>>, src |-> <<>>, idx |-> 0])

\* the call: the arguments are chosen
InferenceCall ==
    /\ pc = "idle"
    /\ labels' \in LabelLists
    /\ dataset' \in Datasets
    /\ n_examples' \in 0..MaxExamples
    /\ label_i' = 1
    /\ pc' = "i_label"
    /\ UNCHANGED <<model, grad, trainVars, fwdVars, images, idx,
                   encodings_digit, example, out, src, saved, error, prev>>

\* for label in labels: the next label; the exemplar scan
InferenceScan ==
    /\ pc = "i_label"
    /\ label_i <= Len(labels)
    /\ LET a == Scan(dataset, Len(labels))
       IN  /\ images' = a.images
           /\ src' = a.src
           /\ idx' = a.idx
    /\ pc' = "i_encode"
    /\ UNCHANGED <<model, grad, trainVars, fwdVars, labels, dataset,
                   n_examples, label_i, encodings_digit, example, out, saved,
                   error, prev>>

\* for d in range(len_labels): encodings_digit.append(model.encode(images[d]))
InferenceEncode ==
    /\ pc = "i_encode"
    /\ Len(images) >= Len(labels)
    /\ encodings_digit' =
          [d \in 1..Len(labels) |-> encode(model, <<images[d]>>)]
    /\ pc' = "i_select"
    /\ UNCHANGED <<model, grad, trainVars, fwdVars, labels, dataset,
                   n_examples, label_i, images, idx, example, out, src, saved,
                   error, prev>>

\* images[d] with d = len(images): IndexError
InferenceEncodeIndexError ==
    /\ pc = "i_encode"
    /\ Len(images) < Len(labels)
    /\ encodings_digit' =
          [d \in 1..Len(images) |-> encode(model, <<images[d]>>)]
    /\ error' = "IndexError"
    /\ pc' = "i_failed"
    /\ UNCHANGED <<model, grad, trainVars, fwdVars, labels, dataset,
                   n_examples, label_i, images, idx, example, out, src, saved,
                   prev>>

\* mu, sigma = encodings_digit[label]
InferenceSelect ==
    /\ pc = "i_select"
    /\ labels[label_i] < Len(encodings_digit)
    /\ mu' = encodings_digit[labels[label_i] + 1].mu
    /\ sigma' = encodings_digit[labels[label_i] + 1].sigma
    /\ example' = 0
    /\ pc' = "i_example"
    /\ UNCHANGED <<model, grad, trainVars, x, x_reconstructed, epsilon, z,
                   labels, dataset, n_examples, label_i, images, idx,
                   encodings_digit, out, src, saved, error, prev>>

\* encodings_digit[label] with label >= len_labels: IndexError
InferenceSelectIndexError ==
    /\ pc = "i_select"
    /\ labels[label_i] >= Len(encodings_digit)
    /\ error' = "IndexError"
    /\ pc' = "i_failed"
    /\ UNCHANGED <<model, grad, trainVars, fwdVars, labels, dataset,
                   n_examples, label_i, images, idx, encodings_digit, example,
                   out, src, saved, prev>>

\* one example: epsilon, z, out = model.decode(z), save_image
InferenceExample ==
    /\ pc = "i_example"
    /\ example < n_examples
    /\ \E eps \in EpsDraws(sigma) :
          /\ epsilon' = eps
          /\ z' = Reparametrize(mu, sigma, eps)
    /\ out' = decode(model, z')
    /\ saved' = Append(saved, [label |-> labels[label_i], example |-> example,
                               src |-> src[labels[label_i] + 1]])
    /\ example' = example + 1
    /\ UNCHANGED <<pc, model, grad, trainVars, x, x_reconstructed, mu, sigma,
                   labels, dataset, n_examples, label_i, images, idx,
                   encodings_digit, src, error, prev>>

\* for example in range(n_examples) is over: on to the next label
InferenceLabelDone ==
    /\ pc = "i_example"
    /\ example = n_examples
    /\ label_i' = label_i + 1
    /\ pc' = "i_label"
    /\ UNCHANGED <<model, grad, trainVars, fwdVars, labels, dataset,
                   n_examples, images, idx, encodings_digit, example, out,
                   src, saved, error, prev>>

\* for label in labels is over: inference returns
InferenceReturn ==
    /\ pc = "i_label"
    /\ label_i > Len(labels)
    /\ pc' = "i_returned"
    /\ UNCHANGED <<model, grad, trainVars, fwdVars, infVars, prev>>

InferenceNext ==
    \/ InferenceCall \/ InferenceScan \/ InferenceEncode
    \/ InferenceEncodeIndexError \/ InferenceSelect
    \/ InferenceSelectIndexError \/ InferenceExample \/ InferenceLabelDone
    \/ InferenceReturn

Next == TrainNext \/ ForwardCall \/ InferenceNext

Spec == Init /\ [][Next]_vars

(***************************************************************************)
(* Properties.                                                              *)
(***************************************************************************)
Range(f) == {f[k] : k \in DOMAIN f}

TrainPcs == {"t_batch", "t_forward", "t_loss", "t_zero_grad", "t_backward",
             "t_step", "t_returned", "t_failed"}
InferencePcs == {"i_label", "i_encode", "i_select", "i_example", "i_failed",
                 "i_returned"}
ForwardPcs == {"f_once", "f_twice"}

\* inference is over: it returned or an exception ended it
InferenceOver == pc \in {"i_returned", "i_failed"}

\* the stream positions that hold an image of label y
PositionsOf(y) == {k \in DOMAIN dataset : dataset[k].y = y}

\* the calls of save_image made for label y
SavedFor(y) == {k \in DOMAIN saved : saved[k].label = y}

\* label y got its n_examples images, with example indices 0..n_examples-1
Served(y) ==
    /\ Cardinality(SavedFor(y)) = n_examples
    /\ {saved[k].example : k \in SavedFor(y)} = 0..(n_examples - 1)

\* some parameter of the model is not finite
Corrupted(m) == \E v \in ParamValues(m) : ~IsFinite(v)

\* C1: when the stream holds at least one image of every requested label,
\* inference returns, having saved len(labels) * n_examples images, n_examples
\* for each requested label, with example indices 0..n_examples-1.
C1_EveryLabelServed ==
    (InferenceOver /\ \A y \in Range(labels) : PositionsOf(y) # {})
    => /\ pc = "i_returned"
       /\ Len(saved) = Len(labels) * n_examples
       /\ \A y \in Range(labels) : Served(y)

\* the statements of the loop body of train, as events
BodyOps == <<"ForwardPass", "LossCompute", "zero_grad", "BackwardPass",
             "ParameterUpdate">>

\* the k-th event of a run of train over a loader of n batches
CanonicalEvent(k, n) ==
    [op |-> BodyOps[((k - 1) % Len(BodyOps)) + 1],
     epoch |-> ((k - 1) \div Len(BodyOps)) \div n,
     i |-> ((k - 1) \div Len(BodyOps)) % n]

\* the order and the count of the events of train, in every state: the events
\* are (ForwardPass, LossCompute, zero_grad, BackwardPass, ParameterUpdate)
\* batch after batch and epoch after epoch; the gradient the optimizer steps
\* on is the gradient of the current batch alone; at the head of the loop
\* train has a next batch, a next epoch or the return to go to; when train
\* returns it has executed the body num_epochs * len(train_loader) times and
\* returns the model.
TrainEventOrder ==
    /\ \A k \in DOMAIN events :
          events[k] = CanonicalEvent(k, Len(train_loader))
    /\ pc = "t_step" =>
          grad = Accumulate(ZeroGrad(model), Backward(model, x, epsilon, alpha))
    /\ pc = "t_batch" => ENABLED (TrainNextBatch \/ TrainNextEpoch \/ TrainReturn)
    /\ pc = "t_returned" =>
          /\ Len(events) = Len(BodyOps) * num_epochs * Len(train_loader)
          /\ returned = "model"

C3_ExplicitInsufficientExemplars ==
    (pc \in InferencePcs /\ Len(images) < Len(labels) /\ error # "none")
    => error = "InsufficientExemplars"

\* C4: when inference fails, every requested label whose exemplar was
\* collected (it has a list position) has its n_examples images saved.
C4_FailureIndependentOfOtherLabels ==
    pc = "i_failed" =>
        \A y \in Range(labels) : y < Len(images) => Served(y)

\* C5: the parameters change only in the optimizer step of train; in a call
\* of inference or of forward they are, in every state, the parameters the
\* call was made with.
C5_ParametersChangeOnlyInStep ==
    /\ [][model' # model => (pc = "t_step" /\ pc' = "t_batch")]_vars
    /\ [](pc \in InferencePcs \cup ForwardPcs => model \in InitModels)

\* the optimizer step of train has changed the parameters
C5_Witness == pc = "t_batch" /\ events # <<>> /\ model \notin InitModels

\* train has computed the loss of the current batch
LossComputed == pc \in {"t_zero_grad", "t_backward", "t_step"}

\* C6: with alpha = 1 the loss is the reconstruction term, whatever the mean
\* and the spread are, and the gradient the optimizer steps on is finite.
C6_AlphaOneGatesDivergence ==
    (LossComputed /\ alpha = ONE)
    => /\ loss = reconstruction_loss
       /\ pc = "t_step" => \A v \in ParamValues(grad) : IsFinite(v)

\* the least element of a non-empty set of integers
Min(S) == CHOOSE a \in S : \A b \in S : a <= b

\* the stream position of the exemplar collected before list position k
SrcBefore(k) == IF k = 1 THEN 0 ELSE src[k - 1]

\* C7 as stated: the exemplar at list position k (label k - 1, counting list
\* positions from 1) is the earliest stream element with that label.
C7_FirstOccurrenceInStream ==
    \A k \in DOMAIN src : src[k] = Min(PositionsOf(k - 1))

\* C7 as amended: the exemplar at list position k has label k - 1 and is the
\* first stream element with that label after the exemplar collected at list
\* position k - 1 (after the start of the stream for the first); the scan
\* stops short of len(labels) exemplars only when the rest of the stream holds
\* no image of the label it waits for.
C7_FirstOccurrenceAfterPrevious ==
    /\ Len(images) = Len(src)
    /\ \A k \in DOMAIN src :
          /\ src[k] \in PositionsOf(k - 1)
          /\ images[k] = dataset[src[k]].x
          /\ src[k] = Min({q \in PositionsOf(k - 1) : q > SrcBefore(k)})
    /\ (pc \in {"i_encode", "i_select", "i_example", "i_failed"}
        /\ Len(src) < Len(labels))
       => {q \in PositionsOf(Len(src)) : q > SrcBefore(Len(src) + 1)} = {}

\* an exemplar was collected that is not the first image of its label
C7_Witness ==
    /\ pc = "i_example"
    /\ \E k \in DOMAIN src : src[k] # Min(PositionsOf(k - 1))

ForwardDone ==
    pc \in {"t_loss", "t_zero_grad", "t_backward", "t_step", "f_once", "f_twice"}

C10_NoWrongClassExemplar ==
    /\ \A k \in DOMAIN src : dataset[src[k]].y = k - 1
    /\ \A k \in DOMAIN saved :
          /\ saved[k].label < Len(labels)
          /\ dataset[saved[k].src].y = saved[k].label
    /\ pc = "i_example" =>
          LET e == encode(model, <<dataset[src[labels[label_i] + 1]].x>>)
          IN  /\ dataset[src[labels[label_i] + 1]].y = labels[label_i]
              /\ mu = e.mu
              /\ sigma = e.sigma
    /\ pc = "i_failed" => error = "IndexError"
    /\ pc \in InferencePcs \ {"i_failed"} => error = "none"

\* images of two labels were saved, the second exemplar not the first image
\* of the stream
C10_Witness ==
    /\ pc = "i_returned"
    /\ \E a, b \in DOMAIN saved :
          /\ saved[a].label # saved[b].label
          /\ saved[a].src > 1

=============================================================================
